---- MODULE Spec2Model ----
(***************************************************************************)
(* Agent process / PTY lifecycle of stagehand (src-tauri).                 *)
(*                                                                         *)
(* One instance id is issued per spawn_agent / spawn_pty call (a fresh     *)
(* UUID).  The piped supervisor (commands/process.rs), the PTY supervisor  *)
(* (commands/pty.rs) and the two registries (process_manager.rs,           *)
(* pty_manager.rs) are modelled as interleaved atomic steps: every step    *)
(* is either synchronous code between two await points, or one critical    *)
(* section under a registry mutex.  spawn_agent sets both pipes with       *)
(* Stdio::piped(), so in Spec child.stdout / child.stderr are always Some  *)
(* and the two `ok_or(.. not piped)?` returns are not taken; PipeFaultSpec *)
(* adds the step in which one of them is taken.  In Spec every manager     *)
(* call runs from lock() to the drop of its guard in one step; PairSpec    *)
(* runs two instances against one registry, and LockSpec adds the          *)
(* PtyManager::write that blocks in write_all while it holds the lock.     *)
(*                                                                         *)
(* Option<T> is modelled as a sequence: None is <<>>, Some(x) is <<x>>.    *)
(***************************************************************************)
EXTENDS Integers, Sequences, FiniteSets, TLC

\* ---------------------------------------------------------------- bounds
\* Lines (piped) or chunks (PTY) a child writes before it ends.
MaxLines == 2

\* The instance ids.  Instances share nothing but the two registry maps and
\* their locks.
Ids == {"id1", "id2"}
\* Spec follows one instance through every step of its life; PairSpec and
\* LockSpec run two instances side by side.
Followed == {"id1"}
\* An id no spawn ever issued (ids are random UUIDs: a caller can name an id
\* it was given, or one that does not exist).
UnknownId == "unknown"
KillIds == Ids \cup {UnknownId}
\* Exit codes a child can end with.
ExitCodes == {0, 1}

None == << >>
Some(x) == <<x>>

\* ------------------------------------------------------- result strings
Ok == "ok"
ProcessNotFound == "Process not found"
KillAlreadySent == "Kill signal already sent"
ProcessAlreadyExited == "Process already exited"
PtyNotFound == "PTY session not found"
PtyAlreadyExited == "PTY already exited"
WriteFailed == "Write failed"
FlushFailed == "Flush failed"
ResizeFailed == "Resize failed"

VARIABLES
    issued,     \* the ids issued so far (uuid::Uuid::new_v4, never repeated)
    kind,       \* kind[i]: "none" | "agent" | "pty"
    spawnPc,    \* position of the spawn_agent / spawn_pty call of id i
    ctx,        \* TempContext of i: "none" | "owned" | "cleaned" | "dropped"
    scratch,    \* scratch[i]: the per-process temp directory exists on disk
    wfiles,     \* wfiles[i]: staged working-directory files that exist on disk
    cleanups,   \* cleanups[i]: number of TempContext::cleanup calls
    child,      \* child[i]: [st: "none"|"running"|"exited", code: Option]
    osKills,    \* osKills[i]: number of OS kills issued on the child
    pipe,       \* pipe[i][s]: lines/chunks written by the child, not yet read
    written,    \* written[i]: lines/chunks the child wrote so far
    reader,     \* reader[i][s]: "none" | "reading" | "done"
    events,     \* events[i]: what was sent on the on_event channel of i
    sup,        \* supervisor task of i
    exitCode,   \* exit_code computed by the supervisor's select!
    poller,     \* PTY exit-polling thread: [st, result]
    chan,       \* oneshot kill channel: "none" | "open" | "sent" | "closed"
    taken,      \* taken[i]: number of times kill_tx.take() returned Some
    procs,      \* ProcessManager.processes
    sessions,   \* PtyManager.sessions: kill_tx and the size of the master PTY
    killRes,    \* killRes[i]: Result of the kill(i) call that took the sender
    ret,        \* Result returned by the step just taken, if it was a manager call
    staged,     \* staged[i]: TempContext.workdir_files as spawn_agent left it
    lockIo,     \* child I/O the step just taken did while holding a registry lock
    app,        \* the application process: "running" | "exited"
    writing,    \* the PtyManager::write call blocked in write_all under the lock
    call        \* the Invocation Builder / agent resolution call last evaluated

vars == <<issued, kind, spawnPc, ctx, scratch, wfiles, cleanups, child,
          osKills, pipe, written, reader, events, sup, exitCode, poller,
          chan, taken, procs, sessions, killRes, ret, staged, lockIo, app,
          writing, call>>

Streams == {"out", "err"}

\* ------------------------------------------------------------- requests
Agents == {"Claude", "Codex", "Gemini", "Amp", "OpenCode"}
McpInputs == {"absent", "valid", "malformed", "no_mcpServers"}

\* SpawnAgentArgs, reduced to the fields that decide what is staged.
Requests ==
    [agent : Agents, working_directory : BOOLEAN,
     append_system_prompt : BOOLEAN, json_schema : BOOLEAN,
     mcp_config : McpInputs]

\* convert_mcp_json_to_codex_toml / convert_mcp_json_to_gemini_settings:
\* Err on malformed JSON and on a missing mcpServers object.
ConvertMcpOk(mcp) == mcp = "valid"

\* The file-system writes (and MCP conversions) spawn_agent performs for a
\* request, in code order.
StagingSteps(req) ==
    (IF req.append_system_prompt
       THEN IF req.agent = "Codex" /\ req.working_directory
              THEN << [op |-> "workdir", path |-> "AGENTS.md"] >>
            ELSE IF req.agent = "Gemini"
              THEN << [op |-> "temp", path |-> "system_prompt.md"] >>
            ELSE << >>
       ELSE << >>)
    \o
    (IF req.json_schema /\ req.agent = "Codex"
       THEN << [op |-> "temp", path |-> "output_schema.json"] >>
       ELSE << >>)
    \o
    (IF req.mcp_config # "absent" /\ req.working_directory
       THEN IF req.agent = "Codex"
              THEN << [op |-> "convert", path |-> ""],
                      [op |-> "workdir", path |-> ".codex/config.toml"] >>
            ELSE IF req.agent = "Gemini"
              THEN << [op |-> "convert", path |-> ""],
                      [op |-> "workdir", path |-> ".gemini/settings.json"] >>
            ELSE << >>
       ELSE << >>)

\* Run the staging steps from step k on; failAt is the index of the write
\* whose I/O fails (0: none).  Returns whether staging succeeded and the
\* working-directory files written so far (TempContext.workdir_files).
RECURSIVE RunStaging(_, _, _, _, _)
RunStaging(steps, k, failAt, mcp, acc) ==
    IF k > Len(steps) THEN [ok |-> TRUE, workdir_files |-> acc]
    ELSE IF steps[k].op = "convert"
      THEN IF ConvertMcpOk(mcp)
             THEN RunStaging(steps, k + 1, failAt, mcp, acc)
             ELSE [ok |-> FALSE, workdir_files |-> acc]
    ELSE IF k = failAt
      THEN [ok |-> FALSE, workdir_files |-> acc]
    ELSE IF steps[k].op = "workdir"
      THEN RunStaging(steps, k + 1, failAt, mcp, acc \cup {steps[k].path})
    ELSE RunStaging(steps, k + 1, failAt, mcp, acc)

\* Faults of the environment during the synchronous part of spawn_agent.
Faults == [temp_dir_ok : BOOLEAN, fail_at : 0..4, spawn_ok : BOOLEAN]

\* The synchronous part of spawn_agent, up to and including cmd.spawn().
BuildAgent(req, flt) ==
    IF ~flt.temp_dir_ok
      THEN [ok |-> FALSE, ctx |-> FALSE, workdir_files |-> {}, spawned |-> FALSE]
    ELSE LET st == RunStaging(StagingSteps(req), 1, flt.fail_at, req.mcp_config, {})
         IN  IF ~st.ok
               THEN [ok |-> FALSE, ctx |-> TRUE,
                     workdir_files |-> st.workdir_files, spawned |-> FALSE]
             ELSE IF ~flt.spawn_ok
               THEN [ok |-> FALSE, ctx |-> TRUE,
                     workdir_files |-> st.workdir_files, spawned |-> FALSE]
             ELSE [ok |-> TRUE, ctx |-> TRUE,
                   workdir_files |-> st.workdir_files, spawned |-> TRUE]

\* ---------------------------------------------------------------- events
Ev(t, code) == [type |-> t, exit_code |-> code]
Emit(i, e) == events' = [events EXCEPT ![i] = Append(@, e)]

\* ------------------------------------------------------------------ Init
NoEntry == [j \in {} |-> None]
\* No builder call has been evaluated.
NoCall == [op |-> "none"]

Init ==
    /\ issued = {}
    /\ kind = [i \in Ids |-> "none"]
    /\ spawnPc = [i \in Ids |-> "idle"]
    /\ ctx = [i \in Ids |-> "none"]
    /\ scratch = [i \in Ids |-> FALSE]
    /\ wfiles = [i \in Ids |-> {}]
    /\ cleanups = [i \in Ids |-> 0]
    /\ child = [i \in Ids |-> [st |-> "none", code |-> None]]
    /\ osKills = [i \in Ids |-> 0]
    /\ pipe = [i \in Ids |-> [s \in Streams |-> 0]]
    /\ written = [i \in Ids |-> 0]
    /\ reader = [i \in Ids |-> [s \in Streams |-> "none"]]
    /\ events = [i \in Ids |-> << >>]
    /\ sup = [i \in Ids |-> "none"]
    /\ exitCode = [i \in Ids |-> None]
    /\ poller = [i \in Ids |-> [st |-> "none", result |-> None]]
    /\ chan = [i \in Ids |-> "none"]
    /\ taken = [i \in Ids |-> 0]
    /\ procs = NoEntry
    /\ sessions = NoEntry
    /\ killRes = [i \in Ids |-> None]
    /\ ret = None
    /\ staged = [i \in Ids |-> {}]
    /\ lockIo = {}
    /\ app = "running"
    /\ writing = None
    /\ call = NoCall

\* ------------------------------------------------------------ registries
Insert(map, i, e) == [j \in DOMAIN map \cup {i} |-> IF j = i THEN e ELSE map[j]]
\* Variant of Remove that empties the map.
RemoveClears(map, i) == [j \in {} |-> map[j]]
Remove(map, i) == [j \in DOMAIN map \ {i} |-> map[j]]

\* ProcessManager::list_running
ListRunning == DOMAIN procs
\* ProcessManager::list_running_detailed
ListRunningDetailed == { <<j, procs[j].stage_execution_id>> : j \in DOMAIN procs }

\* The ids a caller can pass to kill: one it learned from the Started event,
\* the return value or a list call, or one that was never issued.
Known(i) ==
    IF i = UnknownId THEN TRUE
    ELSE spawnPc[i] \in {"registered", "returned"} \/ events[i] # << >>

\* tx.send(()) on the oneshot channel: fails iff the receiver was dropped.
SendOk(c) == c # "closed"
AfterSend(c) == IF c = "open" THEN "sent" ELSE c

\* What the synchronous part of spawn_agent can produce, over all requests
\* and faults.
AgentOutcomes == { BuildAgent(req, flt) : req \in Requests, flt \in Faults }

\* ====================================================== piped instances
StageExecIds == {None, Some("se")}
ExitStatuses == {Some(c) : c \in ExitCodes} \cup {None}

\* spawn_agent, the synchronous part: TempContext::new, argv building and
\* file staging, cmd.spawn(), oneshot::channel().  Every `?` returns Err to
\* the caller and drops temp_ctx.
SpawnAgent(i, out) ==
    /\ app = "running" /\ lockIo' = {} /\ UNCHANGED <<app, call, writing>>
    /\ i \notin issued
    /\ issued' = issued \cup {i}
    /\ kind' = [kind EXCEPT ![i] = "agent"]
    /\ spawnPc' = [spawnPc EXCEPT ![i] = IF out.ok THEN "spawned" ELSE "failed"]
    /\ ctx' = [ctx EXCEPT ![i] = IF ~out.ctx THEN "none"
                                  ELSE IF out.ok THEN "owned" ELSE "dropped"]
    /\ scratch' = [scratch EXCEPT ![i] = out.ctx]
    /\ wfiles' = [wfiles EXCEPT ![i] = out.workdir_files]
    /\ staged' = [staged EXCEPT ![i] = out.workdir_files]
    /\ child' = [child EXCEPT ![i].st = IF out.spawned THEN "running" ELSE "none"]
    /\ chan' = [chan EXCEPT ![i] = IF out.ok THEN "open" ELSE "none"]
    /\ UNCHANGED <<cleanups, osKills, pipe, written, reader, events, sup,
                   exitCode, poller, taken, procs, sessions, killRes>>
    /\ ret' = None

\* Variant of SpawnAgentRegister in which the line readers are spawned before
\* Started is sent.
SpawnAgentRegisterReadersFirst(i, se) ==
    /\ app = "running" /\ lockIo' = {} /\ UNCHANGED <<app, call, staged, writing>>
    /\ kind[i] = "agent" /\ spawnPc[i] = "spawned"
    /\ procs' = Insert(procs, i, [kill_tx |-> TRUE, stage_execution_id |-> se])
    /\ spawnPc' = [spawnPc EXCEPT ![i] = "registered"]
    /\ reader' = [reader EXCEPT ![i] = [s \in Streams |-> "reading"]]
    /\ UNCHANGED <<issued, kind, ctx, scratch, wfiles, cleanups, child, osKills,
                   pipe, written, events, sup, exitCode, poller, chan,
                   taken, sessions, killRes>>
    /\ ret' = None

\* process_manager.register(process_id, kill_tx, stage_execution_id).await
SpawnAgentRegister(i, se) ==
    /\ app = "running" /\ lockIo' = {} /\ UNCHANGED <<app, call, staged, writing>>
    /\ kind[i] = "agent" /\ spawnPc[i] = "spawned"
    /\ procs' = Insert(procs, i, [kill_tx |-> TRUE, stage_execution_id |-> se])
    /\ spawnPc' = [spawnPc EXCEPT ![i] = "registered"]
    /\ UNCHANGED <<issued, kind, ctx, scratch, wfiles, cleanups, child, osKills,
                   pipe, written, reader, events, sup, exitCode, poller, chan,
                   taken, sessions, killRes>>
    /\ ret' = None

\* spawn_agent after register: send Started, spawn the two line readers and
\* the supervisor task, return Ok(process_id).
SpawnAgentStart(i) ==
    /\ app = "running" /\ lockIo' = {} /\ UNCHANGED <<app, call, staged, writing>>
    /\ kind[i] = "agent" /\ spawnPc[i] = "registered"
    /\ Emit(i, Ev("Started", None))
    /\ reader' = [reader EXCEPT ![i] = [s \in Streams |-> "reading"]]
    /\ sup' = [sup EXCEPT ![i] = "select"]
    /\ spawnPc' = [spawnPc EXCEPT ![i] = "returned"]
    /\ UNCHANGED <<issued, kind, ctx, scratch, wfiles, cleanups, child, osKills,
                   pipe, written, exitCode, poller, chan, taken, procs,
                   sessions, killRes>>
    /\ ret' = None

\* spawn_agent after register, when child.stdout.take() or child.stderr.take()
\* is None: Started has been sent, then `ok_or(.. not piped)?` returns Err.
\* No reader and no supervisor is spawned; child, kill_rx and temp_ctx are
\* dropped (the child is not killed: kill_on_drop is not set).  Only
\* PipeFaultSpec takes this step.
SpawnAgentPipeMissing(i) ==
    /\ app = "running" /\ lockIo' = {} /\ UNCHANGED <<app, call, staged, writing>>
    /\ kind[i] = "agent" /\ spawnPc[i] = "registered"
    /\ Emit(i, Ev("Started", None))
    /\ spawnPc' = [spawnPc EXCEPT ![i] = "failed"]
    /\ ctx' = [ctx EXCEPT ![i] = "dropped"]
    /\ chan' = [chan EXCEPT ![i] = "closed"]
    /\ UNCHANGED <<issued, kind, scratch, wfiles, cleanups, child, osKills,
                   pipe, written, reader, sup, exitCode, poller, taken, procs,
                   sessions, killRes>>
    /\ ret' = None

\* The child writes one line (piped) or one chunk (PTY) to stream s.
ChildWrite(i, s) ==
    /\ app = "running" /\ lockIo' = {} /\ UNCHANGED <<app, call, staged, writing>>
    /\ child[i].st = "running"
    /\ written[i] < MaxLines
    /\ kind[i] = "pty" => s = "out"
    /\ pipe' = [pipe EXCEPT ![i][s] = @ + 1]
    /\ written' = [written EXCEPT ![i] = @ + 1]
    /\ UNCHANGED <<issued, kind, spawnPc, ctx, scratch, wfiles, cleanups, child,
                   osKills, reader, events, sup, exitCode, poller, chan, taken,
                   procs, sessions, killRes>>
    /\ ret' = None

\* The child exits by itself; st is what wait() will report (None: no code,
\* the child was terminated by a signal).  A PTY child always has a code.
ChildExit(i, st) ==
    /\ app = "running" /\ lockIo' = {} /\ UNCHANGED <<app, call, staged, writing>>
    /\ child[i].st = "running"
    /\ kind[i] = "pty" => st # None
    /\ child' = [child EXCEPT ![i] = [st |-> "exited", code |-> st]]
    /\ UNCHANGED <<issued, kind, spawnPc, ctx, scratch, wfiles, cleanups,
                   osKills, pipe, written, reader, events, sup, exitCode,
                   poller, chan, taken, procs, sessions, killRes, ret>>

LineEvent(s) == IF s = "out" THEN "StdoutLine" ELSE "StderrLine"

\* stdout_task / stderr_task: lines.next_line() returned Ok(Some(line)).
ReaderLine(i, s) ==
    /\ app = "running" /\ lockIo' = {} /\ UNCHANGED <<app, call, staged, writing>>
    /\ kind[i] = "agent" /\ reader[i][s] = "reading"
    /\ pipe[i][s] > 0
    /\ pipe' = [pipe EXCEPT ![i][s] = @ - 1]
    /\ Emit(i, Ev(LineEvent(s), None))
    /\ UNCHANGED <<issued, kind, spawnPc, ctx, scratch, wfiles, cleanups, child,
                   osKills, written, reader, sup, exitCode, poller, chan, taken,
                   procs, sessions, killRes>>
    /\ ret' = None

\* next_line() returned Ok(None): the write end is closed and no data is left.
ReaderEof(i, s) ==
    /\ app = "running" /\ lockIo' = {} /\ UNCHANGED <<app, call, staged, writing>>
    /\ kind[i] = "agent" /\ reader[i][s] = "reading"
    /\ pipe[i][s] = 0 /\ child[i].st = "exited"
    /\ reader' = [reader EXCEPT ![i][s] = "done"]
    /\ UNCHANGED <<issued, kind, spawnPc, ctx, scratch, wfiles, cleanups, child,
                   osKills, pipe, written, events, sup, exitCode, poller, chan,
                   taken, procs, sessions, killRes>>
    /\ ret' = None

\* next_line() returned Err (a line that is not UTF-8): `while let Ok(Some(..))`
\* ends the loop, the task finishes and the pipe is dropped with its data.
ReaderErr(i, s) ==
    /\ app = "running" /\ lockIo' = {} /\ UNCHANGED <<app, call, staged, writing>>
    /\ kind[i] = "agent" /\ reader[i][s] = "reading"
    /\ pipe[i][s] > 0
    /\ reader' = [reader EXCEPT ![i][s] = "done"]
    /\ UNCHANGED <<issued, kind, spawnPc, ctx, scratch, wfiles, cleanups, child,
                   osKills, pipe, written, events, sup, exitCode, poller, chan,
                   taken, procs, sessions, killRes>>
    /\ ret' = None

\* Variant of SupSelectExit that reports no exit code.
SupSelectExitDropsCode(i) ==
    /\ app = "running" /\ lockIo' = {} /\ UNCHANGED <<app, call, staged, writing>>
    /\ kind[i] = "agent" /\ sup[i] = "select"
    /\ child[i].st = "exited"
    /\ exitCode' = [exitCode EXCEPT ![i] = None]
    /\ chan' = [chan EXCEPT ![i] = "closed"]
    /\ sup' = [sup EXCEPT ![i] = "drain"]
    /\ UNCHANGED <<issued, kind, spawnPc, ctx, scratch, wfiles, cleanups, child,
                   osKills, pipe, written, reader, events, poller, taken, procs,
                   sessions, killRes>>
    /\ ret' = None

\* Variant of SupSelectExit in which the receiver of the kill channel outlives
\* the select.
SupSelectExitKeepsReceiver(i) ==
    /\ app = "running" /\ lockIo' = {} /\ UNCHANGED <<app, call, staged, writing>>
    /\ kind[i] = "agent" /\ sup[i] = "select"
    /\ child[i].st = "exited"
    /\ exitCode' = [exitCode EXCEPT ![i] = child[i].code]
    /\ sup' = [sup EXCEPT ![i] = "drain"]
    /\ UNCHANGED <<issued, kind, spawnPc, ctx, scratch, wfiles, cleanups, child,
                   osKills, pipe, written, reader, events, poller, taken, procs,
                   sessions, killRes, chan>>
    /\ ret' = None

\* select!: `status = child.wait()` wins.  kill_rx is dropped with the select.
SupSelectExit(i) ==
    /\ app = "running" /\ lockIo' = {} /\ UNCHANGED <<app, call, staged, writing>>
    /\ kind[i] = "agent" /\ sup[i] = "select"
    /\ child[i].st = "exited"
    /\ exitCode' = [exitCode EXCEPT ![i] = child[i].code]
    /\ chan' = [chan EXCEPT ![i] = "closed"]
    /\ sup' = [sup EXCEPT ![i] = "drain"]
    /\ UNCHANGED <<issued, kind, spawnPc, ctx, scratch, wfiles, cleanups, child,
                   osKills, pipe, written, reader, events, poller, taken, procs,
                   sessions, killRes>>
    /\ ret' = None

\* Variant of SupSelectKill in which the kill branch does not kill the child.
SupSelectKillNoOsKill(i) ==
    /\ app = "running" /\ lockIo' = {} /\ UNCHANGED <<app, call, staged, writing>>
    /\ kind[i] = "agent" /\ sup[i] = "select"
    /\ chan[i] = "sent"
    /\ exitCode' = [exitCode EXCEPT ![i] = None]
    /\ chan' = [chan EXCEPT ![i] = "closed"]
    /\ sup' = [sup EXCEPT ![i] = "drain"]
    /\ UNCHANGED <<issued, kind, spawnPc, ctx, scratch, wfiles, cleanups, pipe,
                   written, reader, events, poller, taken, procs, sessions,
                   killRes, osKills, child>>
    /\ ret' = None

\* select!: `_ = kill_rx` wins: child.kill().await, exit code None.
SupSelectKill(i) ==
    /\ app = "running" /\ lockIo' = {} /\ UNCHANGED <<app, call, staged, writing>>
    /\ kind[i] = "agent" /\ sup[i] = "select"
    /\ chan[i] = "sent"
    /\ osKills' = [osKills EXCEPT ![i] = @ + 1]
    /\ child' = [child EXCEPT ![i] = IF @.st = "running"
                                       THEN [st |-> "exited", code |-> None] ELSE @]
    /\ exitCode' = [exitCode EXCEPT ![i] = None]
    /\ chan' = [chan EXCEPT ![i] = "closed"]
    /\ sup' = [sup EXCEPT ![i] = "drain"]
    /\ UNCHANGED <<issued, kind, spawnPc, ctx, scratch, wfiles, cleanups, pipe,
                   written, reader, events, poller, taken, procs, sessions, killRes>>
    /\ ret' = None

\* Variant of SupCleanup in which the supervisor does not await the reader
\* tasks.
SupCleanupNoJoin(i) ==
    /\ app = "running" /\ lockIo' = {} /\ UNCHANGED <<app, call, staged, writing>>
    /\ kind[i] = "agent" /\ sup[i] = "drain"
    /\ cleanups' = [cleanups EXCEPT ![i] = @ + 1]
    /\ wfiles' = [wfiles EXCEPT ![i] = {}]
    /\ sup' = [sup EXCEPT ![i] = "rmdir"]
    /\ UNCHANGED <<issued, kind, spawnPc, child, osKills, pipe, written, reader,
                   events, exitCode, poller, chan, taken, procs, sessions,
                   killRes, scratch, ctx>>
    /\ ret' = None

\* Variant of SupCleanup in which cleanup leaves the working-directory files
\* in place.
SupCleanupKeepsWorkdir(i) ==
    /\ app = "running" /\ lockIo' = {} /\ UNCHANGED <<app, call, staged, writing>>
    /\ kind[i] = "agent" /\ sup[i] = "drain"
    /\ \A s \in Streams : reader[i][s] = "done"
    /\ cleanups' = [cleanups EXCEPT ![i] = @ + 1]
    /\ sup' = [sup EXCEPT ![i] = "rmdir"]
    /\ UNCHANGED <<issued, kind, spawnPc, child, osKills, pipe, written, reader,
                   events, exitCode, poller, chan, taken, procs, sessions,
                   killRes, wfiles, scratch, ctx>>
    /\ ret' = None

\* Variant of SupCleanup in which cleanup starts with the scratch directory.
SupCleanupDirFirst(i) ==
    /\ app = "running" /\ lockIo' = {} /\ UNCHANGED <<app, call, staged, writing>>
    /\ kind[i] = "agent" /\ sup[i] = "drain"
    /\ \A s \in Streams : reader[i][s] = "done"
    /\ cleanups' = [cleanups EXCEPT ![i] = @ + 1]
    /\ scratch' = [scratch EXCEPT ![i] = FALSE]
    /\ sup' = [sup EXCEPT ![i] = "rmdir"]
    /\ UNCHANGED <<issued, kind, spawnPc, child, osKills, pipe, written, reader,
                   events, exitCode, poller, chan, taken, procs, sessions, killRes,
                   wfiles, ctx>>
    /\ ret' = None

\* stdout_task.await; stderr_task.await; temp_ctx.cleanup(), its first loop:
\* remove_file on every path of workdir_files.  The removals of cleanup are
\* taken to succeed (their errors are ignored by the code).
SupCleanup(i) ==
    /\ app = "running" /\ lockIo' = {} /\ UNCHANGED <<app, call, staged, writing>>
    /\ kind[i] = "agent" /\ sup[i] = "drain"
    /\ \A s \in Streams : reader[i][s] = "done"
    /\ cleanups' = [cleanups EXCEPT ![i] = @ + 1]
    /\ wfiles' = [wfiles EXCEPT ![i] = {}]
    /\ sup' = [sup EXCEPT ![i] = "rmdir"]
    /\ UNCHANGED <<issued, kind, spawnPc, child, osKills, pipe, written, reader,
                   events, exitCode, poller, chan, taken, procs, sessions, killRes,
                   scratch, ctx>>
    /\ ret' = None

\* temp_ctx.cleanup(), its last statement: remove_dir_all(&self.dir); the
\* TempContext is consumed.
SupCleanupDir(i) ==
    /\ app = "running" /\ lockIo' = {} /\ UNCHANGED <<app, call, staged, writing>>
    /\ kind[i] = "agent" /\ sup[i] = "rmdir"
    /\ scratch' = [scratch EXCEPT ![i] = FALSE]
    /\ ctx' = [ctx EXCEPT ![i] = "cleaned"]
    /\ sup' = [sup EXCEPT ![i] = "emit"]
    /\ UNCHANGED <<issued, kind, spawnPc, child, osKills, pipe, written, reader,
                   events, exitCode, poller, chan, taken, procs, sessions, killRes,
                   wfiles, cleanups>>
    /\ ret' = None

\* completion_event.send(Completed { process_id, exit_code })
SupEmit(i) ==
    /\ app = "running" /\ lockIo' = {} /\ UNCHANGED <<app, call, staged, writing>>
    /\ kind[i] = "agent" /\ sup[i] = "emit"
    /\ Emit(i, Ev("Completed", exitCode[i]))
    /\ sup' = [sup EXCEPT ![i] = "remove"]
    /\ UNCHANGED <<issued, kind, spawnPc, ctx, scratch, wfiles, cleanups, child,
                   osKills, pipe, written, reader, exitCode, poller, chan, taken,
                   procs, sessions, killRes>>
    /\ ret' = None

\* pm.remove(&pid).await
SupRemove(i) ==
    /\ app = "running" /\ lockIo' = {} /\ UNCHANGED <<app, call, staged, writing>>
    /\ kind[i] = "agent" /\ sup[i] = "remove"
    /\ procs' = Remove(procs, i)
    /\ sup' = [sup EXCEPT ![i] = "done"]
    /\ UNCHANGED <<issued, kind, spawnPc, ctx, scratch, wfiles, cleanups, child,
                   osKills, pipe, written, reader, events, exitCode, poller,
                   chan, taken, sessions, killRes>>
    /\ ret' = None

\* ------------------------------------------------------ ProcessManager
\* Variant of PmKillResult that does not look at whether the sender was
\* already taken.
PmKillResultNoTake(present, hasTx, c) ==
    IF present
      THEN IF SendOk(c) THEN Ok ELSE ProcessAlreadyExited
      ELSE ProcessNotFound

\* Variant of PmKillResult in which kill on a missing entry succeeds silently.
PmKillResultSilent(present, hasTx, c) ==
    IF present
      THEN IF hasTx
             THEN IF SendOk(c) THEN Ok ELSE ProcessAlreadyExited
             ELSE KillAlreadySent
      ELSE Ok

\* The Result of ProcessManager::kill, from the entry it finds.
PmKillResult(present, hasTx, c) ==
    IF present
      THEN IF hasTx
             THEN IF SendOk(c) THEN Ok ELSE ProcessAlreadyExited
             ELSE KillAlreadySent
      ELSE ProcessNotFound

\* ProcessManager::kill(process_id)
PmKill(i) ==
    /\ app = "running" /\ lockIo' = {} /\ UNCHANGED <<app, call, staged, writing>>
    /\ Known(i)
    /\ IF i \in Ids THEN kind[i] = "agent" ELSE TRUE
    /\ LET present == i \in DOMAIN procs
           hasTx == IF present THEN procs[i].kill_tx ELSE FALSE
           res == PmKillResult(present, hasTx, IF hasTx THEN chan[i] ELSE "none")
       IN  /\ procs' = IF hasTx THEN [procs EXCEPT ![i].kill_tx = FALSE] ELSE procs
           /\ chan' = IF hasTx THEN [chan EXCEPT ![i] = AfterSend(@)] ELSE chan
           /\ taken' = IF hasTx THEN [taken EXCEPT ![i] = @ + 1] ELSE taken
           /\ killRes' = IF hasTx THEN [killRes EXCEPT ![i] = Some(res)] ELSE killRes
           /\ ret' = Some(res)
    /\ UNCHANGED <<issued, kind, spawnPc, ctx, scratch, wfiles, cleanups, child,
                   osKills, pipe, written, reader, events, sup, exitCode, poller,
                   sessions>>

\* The senders kill_all takes: every entry whose kill_tx is still Some.
TakenBy(map) == { j \in DOMAIN map : map[j].kill_tx }

\* Variant of PmKillAll in which a failing send ends the sweep: the map is
\* not cleared.
PmKillAllStopsAtFailure ==
    /\ app = "running" /\ lockIo' = {} /\ UNCHANGED <<app, call, staged, writing>>
    /\ chan' = [j \in Ids |-> IF j \in TakenBy(procs) THEN AfterSend(chan[j]) ELSE chan[j]]
    /\ taken' = [j \in Ids |-> IF j \in TakenBy(procs) THEN taken[j] + 1 ELSE taken[j]]
    /\ procs' = IF \E j \in TakenBy(procs) : ~SendOk(chan[j])
                  THEN [j \in DOMAIN procs |-> [procs[j] EXCEPT !.kill_tx = FALSE]]
                  ELSE NoEntry
    /\ ret' = None
    /\ UNCHANGED <<issued, kind, spawnPc, ctx, scratch, wfiles, cleanups, child,
                   osKills, pipe, written, reader, events, sup, exitCode, poller,
                   sessions, killRes>>

\* ProcessManager::kill_all()
PmKillAll ==
    /\ app = "running" /\ lockIo' = {} /\ UNCHANGED <<app, call, staged, writing>>
    /\ chan' = [j \in Ids |-> IF j \in TakenBy(procs) THEN AfterSend(chan[j]) ELSE chan[j]]
    /\ taken' = [j \in Ids |-> IF j \in TakenBy(procs) THEN taken[j] + 1 ELSE taken[j]]
    /\ procs' = NoEntry
    /\ ret' = None
    /\ UNCHANGED <<issued, kind, spawnPc, ctx, scratch, wfiles, cleanups, child,
                   osKills, pipe, written, reader, events, sup, exitCode, poller,
                   sessions, killRes>>

\* RunEvent::Exit: block_on(pm.kill_all()) on the managed ProcessManager, then
\* the application process ends: no task of the runtime takes a further step.
AppExit ==
    /\ app = "running"
    /\ app' = "exited"
    /\ chan' = [j \in Ids |-> IF j \in TakenBy(procs) THEN AfterSend(chan[j]) ELSE chan[j]]
    /\ taken' = [j \in Ids |-> IF j \in TakenBy(procs) THEN taken[j] + 1 ELSE taken[j]]
    /\ procs' = NoEntry
    /\ ret' = None
    /\ lockIo' = {}
    /\ UNCHANGED <<issued, kind, spawnPc, ctx, scratch, wfiles, cleanups, child,
                   osKills, pipe, written, reader, events, sup, exitCode, poller,
                   sessions, killRes, staged, writing, call>>

\* ========================================================= PTY sessions
PtyFaults == [openpty_ok : BOOLEAN, spawn_ok : BOOLEAN,
              writer_ok : BOOLEAN, reader_ok : BOOLEAN]

\* The synchronous part of spawn_pty: openpty, spawn_command, take_writer,
\* try_clone_reader.  Every `?` returns Err; the last two do so with the
\* child already spawned.
BuildPty(flt) ==
    IF ~flt.openpty_ok THEN [ok |-> FALSE, spawned |-> FALSE]
    ELSE IF ~flt.spawn_ok THEN [ok |-> FALSE, spawned |-> FALSE]
    ELSE IF ~flt.writer_ok THEN [ok |-> FALSE, spawned |-> TRUE]
    ELSE IF ~flt.reader_ok THEN [ok |-> FALSE, spawned |-> TRUE]
    ELSE [ok |-> TRUE, spawned |-> TRUE]

PtyOutcomes == { BuildPty(flt) : flt \in PtyFaults }

SpawnPty(i, out) ==
    /\ app = "running" /\ lockIo' = {} /\ UNCHANGED <<app, call, staged, writing>>
    /\ i \notin issued
    /\ issued' = issued \cup {i}
    /\ kind' = [kind EXCEPT ![i] = "pty"]
    /\ spawnPc' = [spawnPc EXCEPT ![i] = IF out.ok THEN "spawned" ELSE "failed"]
    /\ child' = [child EXCEPT ![i].st = IF out.spawned THEN "running" ELSE "none"]
    /\ chan' = [chan EXCEPT ![i] = IF out.ok THEN "open" ELSE "none"]
    /\ UNCHANGED <<ctx, scratch, wfiles, cleanups, osKills, pipe, written,
                   reader, events, sup, exitCode, poller, taken, procs,
                   sessions, killRes>>
    /\ ret' = None

\* args.cols.unwrap_or(120), args.rows.unwrap_or(24): the size the PTY is
\* opened with when the caller names none.
DefaultSize == <<120, 24>>
\* The <<cols, rows>> a caller passes to resize_pty.
Sizes == {DefaultSize, <<80, 40>>}

\* pty_manager.register(session_id, entry).await; the entry owns the master
\* PTY, opened with DefaultSize.
SpawnPtyRegister(i) ==
    /\ app = "running" /\ lockIo' = {} /\ UNCHANGED <<app, call, staged, writing>>
    /\ writing = None
    /\ kind[i] = "pty" /\ spawnPc[i] = "spawned"
    /\ sessions' = Insert(sessions, i, [kill_tx |-> TRUE, size |-> DefaultSize])
    /\ spawnPc' = [spawnPc EXCEPT ![i] = "registered"]
    /\ UNCHANGED <<issued, kind, ctx, scratch, wfiles, cleanups, child, osKills,
                   pipe, written, reader, events, sup, exitCode, poller, chan,
                   taken, procs, killRes>>
    /\ ret' = None

\* spawn_pty after register: send Started, spawn the blocking read loop and
\* the supervisor task (whose select! starts the exit poller), return Ok.
SpawnPtyStart(i) ==
    /\ app = "running" /\ lockIo' = {} /\ UNCHANGED <<app, call, staged, writing>>
    /\ kind[i] = "pty" /\ spawnPc[i] = "registered"
    /\ Emit(i, Ev("Started", None))
    /\ reader' = [reader EXCEPT ![i]["out"] = "reading"]
    /\ sup' = [sup EXCEPT ![i] = "select"]
    /\ poller' = [poller EXCEPT ![i].st = "polling"]
    /\ spawnPc' = [spawnPc EXCEPT ![i] = "returned"]
    /\ UNCHANGED <<issued, kind, ctx, scratch, wfiles, cleanups, child, osKills,
                   pipe, written, exitCode, chan, taken, procs, sessions, killRes>>
    /\ ret' = None

\* read loop: reader.read(&mut buf) returned Ok(n), n > 0.
PtyReaderChunk(i) ==
    /\ app = "running" /\ lockIo' = {} /\ UNCHANGED <<app, call, staged, writing>>
    /\ kind[i] = "pty" /\ reader[i]["out"] = "reading"
    /\ pipe[i]["out"] > 0
    /\ pipe' = [pipe EXCEPT ![i]["out"] = @ - 1]
    /\ Emit(i, Ev("Output", None))
    /\ UNCHANGED <<issued, kind, spawnPc, ctx, scratch, wfiles, cleanups, child,
                   osKills, written, reader, sup, exitCode, poller, chan, taken,
                   procs, sessions, killRes>>
    /\ ret' = None

\* read loop: Ok(0) or Err(_) once the child side is closed and drained.
PtyReaderEnd(i) ==
    /\ app = "running" /\ lockIo' = {} /\ UNCHANGED <<app, call, staged, writing>>
    /\ kind[i] = "pty" /\ reader[i]["out"] = "reading"
    /\ pipe[i]["out"] = 0 /\ child[i].st = "exited"
    /\ reader' = [reader EXCEPT ![i]["out"] = "done"]
    /\ UNCHANGED <<issued, kind, spawnPc, ctx, scratch, wfiles, cleanups, child,
                   osKills, pipe, written, events, sup, exitCode, poller, chan,
                   taken, procs, sessions, killRes>>
    /\ ret' = None

\* One iteration of the polling loop that returns: under the sessions lock,
\* the entry is gone (None) or try_wait() reports the exit status.  An
\* iteration that finds a running child changes nothing.
PollReturn(i) ==
    /\ app = "running" /\ UNCHANGED <<app, call, staged, writing>>
    /\ lockIo' = IF i \in DOMAIN sessions THEN {"try_wait"} ELSE {}
    /\ writing = None
    /\ kind[i] = "pty" /\ poller[i].st = "polling"
    /\ i \in DOMAIN sessions => child[i].st = "exited"
    /\ poller' = [poller EXCEPT ![i] =
                    [st |-> "returned",
                     result |-> IF i \in DOMAIN sessions THEN child[i].code ELSE None]]
    /\ UNCHANGED <<issued, kind, spawnPc, ctx, scratch, wfiles, cleanups, child,
                   osKills, pipe, written, reader, events, sup, exitCode, chan,
                   taken, procs, sessions, killRes>>
    /\ ret' = None

\* select!: the polling branch wins.
PtySupSelectExit(i) ==
    /\ app = "running" /\ lockIo' = {} /\ UNCHANGED <<app, call, staged, writing>>
    /\ kind[i] = "pty" /\ sup[i] = "select"
    /\ poller[i].st = "returned"
    /\ exitCode' = [exitCode EXCEPT ![i] = poller[i].result]
    /\ chan' = [chan EXCEPT ![i] = "closed"]
    /\ sup' = [sup EXCEPT ![i] = "emit"]
    /\ UNCHANGED <<issued, kind, spawnPc, ctx, scratch, wfiles, cleanups, child,
                   osKills, pipe, written, reader, events, poller, taken, procs,
                   sessions, killRes>>
    /\ ret' = None

\* select!: `_ = kill_rx` wins: entry.child.kill() if the entry is still in
\* the map, exit code None.
PtySupSelectKill(i, c) ==
    /\ app = "running" /\ UNCHANGED <<app, call, staged, writing>>
    /\ lockIo' = IF i \in DOMAIN sessions THEN {"kill"} ELSE {}
    /\ writing = None
    /\ kind[i] = "pty" /\ sup[i] = "select"
    /\ chan[i] = "sent"
    /\ IF i \in DOMAIN sessions
         THEN /\ osKills' = [osKills EXCEPT ![i] = @ + 1]
              /\ child' = [child EXCEPT ![i] = IF @.st = "running"
                                                 THEN [st |-> "exited", code |-> Some(c)]
                                                 ELSE @]
         ELSE UNCHANGED <<osKills, child>>
    /\ exitCode' = [exitCode EXCEPT ![i] = None]
    /\ chan' = [chan EXCEPT ![i] = "closed"]
    /\ sup' = [sup EXCEPT ![i] = "emit"]
    /\ UNCHANGED <<issued, kind, spawnPc, ctx, scratch, wfiles, cleanups, pipe,
                   written, reader, events, poller, taken, procs, sessions, killRes>>
    /\ ret' = None

\* exit_event.send(PtyEvent::Exited { id, exit_code })
PtySupEmit(i) ==
    /\ app = "running" /\ lockIo' = {} /\ UNCHANGED <<app, call, staged, writing>>
    /\ kind[i] = "pty" /\ sup[i] = "emit"
    /\ Emit(i, Ev("Exited", exitCode[i]))
    /\ sup' = [sup EXCEPT ![i] = "remove"]
    /\ UNCHANGED <<issued, kind, spawnPc, ctx, scratch, wfiles, cleanups, child,
                   osKills, pipe, written, reader, exitCode, poller, chan, taken,
                   procs, sessions, killRes>>
    /\ ret' = None

\* pm.remove(&sid).await
PtySupRemove(i) ==
    /\ app = "running" /\ lockIo' = {} /\ UNCHANGED <<app, call, staged, writing>>
    /\ writing = None
    /\ kind[i] = "pty" /\ sup[i] = "remove"
    /\ sessions' = Remove(sessions, i)
    /\ sup' = [sup EXCEPT ![i] = "done"]
    /\ UNCHANGED <<issued, kind, spawnPc, ctx, scratch, wfiles, cleanups, child,
                   osKills, pipe, written, reader, events, exitCode, poller,
                   chan, taken, procs, killRes>>
    /\ ret' = None

\* ----------------------------------------------------------- PtyManager
\* The Result of PtyManager::kill, from the entry it finds.
PtyKillResult(present, hasTx, c) ==
    IF present
      THEN IF hasTx /\ ~SendOk(c) THEN PtyAlreadyExited ELSE Ok
      ELSE PtyNotFound

\* PtyManager::kill(id)
PtyKill(i) ==
    /\ app = "running" /\ lockIo' = {} /\ UNCHANGED <<app, call, staged, writing>>
    /\ writing = None
    /\ Known(i)
    /\ IF i \in Ids THEN kind[i] = "pty" ELSE TRUE
    /\ LET present == i \in DOMAIN sessions
           hasTx == IF present THEN sessions[i].kill_tx ELSE FALSE
           res == PtyKillResult(present, hasTx, IF hasTx THEN chan[i] ELSE "none")
       IN  /\ sessions' = IF hasTx THEN [sessions EXCEPT ![i].kill_tx = FALSE]
                                   ELSE sessions
           /\ chan' = IF hasTx THEN [chan EXCEPT ![i] = AfterSend(@)] ELSE chan
           /\ taken' = IF hasTx THEN [taken EXCEPT ![i] = @ + 1] ELSE taken
           /\ killRes' = IF hasTx THEN [killRes EXCEPT ![i] = Some(res)] ELSE killRes
           /\ ret' = Some(res)
    /\ UNCHANGED <<issued, kind, spawnPc, ctx, scratch, wfiles, cleanups, child,
                   osKills, pipe, written, reader, events, sup, exitCode, poller,
                   procs>>

\* PtyManager::kill_all()
PtyKillAll ==
    /\ app = "running" /\ lockIo' = {} /\ UNCHANGED <<app, call, staged, writing>>
    /\ writing = None
    /\ chan' = [j \in Ids |-> IF j \in TakenBy(sessions) THEN AfterSend(chan[j]) ELSE chan[j]]
    /\ taken' = [j \in Ids |-> IF j \in TakenBy(sessions) THEN taken[j] + 1 ELSE taken[j]]
    /\ sessions' = NoEntry
    /\ ret' = None
    /\ UNCHANGED <<issued, kind, spawnPc, ctx, scratch, wfiles, cleanups, child,
                   osKills, pipe, written, reader, events, sup, exitCode, poller,
                   procs, killRes>>

\* Outcomes of the I/O PtyManager::write does on the entry's writer.
WriteIo == {"ok", "write_err", "flush_err"}

\* The Result of PtyManager::write, from the entry it finds.
PtyWriteResult(present, io) ==
    IF present
      THEN IF io = "write_err" THEN WriteFailed
           ELSE IF io = "flush_err" THEN FlushFailed
           ELSE Ok
      ELSE PtyNotFound

\* PtyManager::write(id, data): write_all and flush run between lock() and
\* the drop of the guard.
PtyWrite(i, io) ==
    /\ app = "running" /\ UNCHANGED <<app, call, staged, writing>>
    /\ writing = None
    /\ Known(i)
    /\ IF i \in Ids THEN kind[i] = "pty" ELSE TRUE
    /\ LET present == i \in DOMAIN sessions
       IN  /\ ret' = Some(PtyWriteResult(present, io))
           /\ lockIo' = IF ~present THEN {}
                        ELSE IF io = "write_err" THEN {"write"}
                        ELSE {"write", "flush"}
    /\ UNCHANGED <<issued, kind, spawnPc, ctx, scratch, wfiles, cleanups, child,
                   osKills, pipe, written, reader, events, sup, exitCode, poller,
                   chan, taken, procs, sessions, killRes>>

\* PtyManager::write(id, data) on a session whose child does not read its
\* input: the terminal's input queue is full, writer.write_all blocks the
\* calling thread, and the guard of sessions.lock() stays alive.
PtyWriteBlock(i) ==
    /\ app = "running" /\ UNCHANGED <<app, call, staged>>
    /\ writing = None
    /\ Known(i) /\ kind[i] = "pty"
    /\ i \in DOMAIN sessions
    /\ child[i].st = "running"
    /\ writing' = Some([id |-> i, st |-> "blocked"])
    /\ lockIo' = {"write"}
    /\ ret' = None
    /\ UNCHANGED <<issued, kind, spawnPc, ctx, scratch, wfiles, cleanups, child,
                   osKills, pipe, written, reader, events, sup, exitCode, poller,
                   chan, taken, procs, sessions, killRes>>

\* The child of the session reads its input: the queue has room again.
ChildReadInput(i) ==
    /\ app = "running" /\ UNCHANGED <<app, call, staged>>
    /\ writing = Some([id |-> i, st |-> "blocked"])
    /\ child[i].st = "running"
    /\ writing' = Some([id |-> i, st |-> "ready"])
    /\ lockIo' = {"write"}
    /\ ret' = None
    /\ UNCHANGED <<issued, kind, spawnPc, ctx, scratch, wfiles, cleanups, child,
                   osKills, pipe, written, reader, events, sup, exitCode, poller,
                   chan, taken, procs, sessions, killRes>>

\* What the blocked write_all / flush can return: an error once the child
\* side of the terminal is closed, else success or a failing flush.
BlockedWriteIo(i) ==
    IF child[i].st = "exited" THEN {"write_err"} ELSE {"ok", "flush_err"}

\* The blocked PtyManager::write returns, and its guard is dropped: the
\* queue has room, or the child is gone.
PtyWriteReturn(i, io) ==
    /\ app = "running" /\ UNCHANGED <<app, call, staged>>
    /\ writing # None
    /\ writing[1].id = i
    /\ writing[1].st = "ready" \/ child[i].st = "exited"
    /\ io \in BlockedWriteIo(i)
    /\ writing' = None
    /\ ret' = Some(PtyWriteResult(TRUE, io))
    /\ lockIo' = IF io = "write_err" THEN {"write"} ELSE {"write", "flush"}
    /\ UNCHANGED <<issued, kind, spawnPc, ctx, scratch, wfiles, cleanups, child,
                   osKills, pipe, written, reader, events, sup, exitCode, poller,
                   chan, taken, procs, sessions, killRes>>

\* The Result of PtyManager::resize, from the entry it finds.
PtyResizeResult(present, ok) ==
    IF present THEN IF ok THEN Ok ELSE ResizeFailed ELSE PtyNotFound

\* Variant of PtyResize that sets the size of every session.
PtyResizeEverySession(i, sz, ok) ==
    /\ app = "running" /\ UNCHANGED <<app, call, staged, writing>>
    /\ writing = None
    /\ Known(i)
    /\ IF i \in Ids THEN kind[i] = "pty" ELSE TRUE
    /\ LET present == i \in DOMAIN sessions
       IN  /\ ret' = Some(PtyResizeResult(present, ok))
           /\ lockIo' = IF present THEN {"resize"} ELSE {}
           /\ sessions' = IF present /\ ok
                             THEN [j \in DOMAIN sessions |-> [sessions[j] EXCEPT !.size = sz]]
                             ELSE sessions
    /\ UNCHANGED <<issued, kind, spawnPc, ctx, scratch, wfiles, cleanups, child,
                   osKills, pipe, written, reader, events, sup, exitCode, poller,
                   chan, taken, procs, killRes>>

\* PtyManager::resize(id, cols, rows): master_pty.resize runs under the lock
\* and sets the size of the entry's terminal when it succeeds.
PtyResize(i, sz, ok) ==
    /\ app = "running" /\ UNCHANGED <<app, call, staged, writing>>
    /\ writing = None
    /\ Known(i)
    /\ IF i \in Ids THEN kind[i] = "pty" ELSE TRUE
    /\ LET present == i \in DOMAIN sessions
       IN  /\ ret' = Some(PtyResizeResult(present, ok))
           /\ lockIo' = IF present THEN {"resize"} ELSE {}
           /\ sessions' = IF present /\ ok THEN [sessions EXCEPT ![i].size = sz]
                                            ELSE sessions
    /\ UNCHANGED <<issued, kind, spawnPc, ctx, scratch, wfiles, cleanups, child,
                   osKills, pipe, written, reader, events, sup, exitCode, poller,
                   chan, taken, procs, killRes>>

\* =================================================== Invocation Builder
\* Strings that are inspected character by character are sequences of
\* one-character strings.
UpperChars == <<"A", "C", "D", "E", "G", "I", "L", "M", "N", "O", "P", "T", "U", "X">>
LowerChars == <<"a", "c", "d", "e", "g", "i", "l", "m", "n", "o", "p", "t", "u", "x">>

\* char::to_lowercase on the letters that occur in the identifiers.
ToLowerChar(ch) ==
    IF \E k \in DOMAIN UpperChars : UpperChars[k] = ch
      THEN LowerChars[CHOOSE k \in DOMAIN UpperChars : UpperChars[k] = ch]
      ELSE ch

\* str::to_lowercase
ToLowercase(str) == [k \in DOMAIN str |-> ToLowerChar(str[k])]

\* Variant of FromStrOpt that compares the identifier as it is given.
FromStrOptCaseSensitive(str) ==
    IF str = <<"c", "l", "a", "u", "d", "e">> THEN Some("Claude")
    ELSE IF str = <<"c", "o", "d", "e", "x">> THEN Some("Codex")
    ELSE IF str = <<"g", "e", "m", "i", "n", "i">> THEN Some("Gemini")
    ELSE IF str = <<"a", "m", "p">> THEN Some("Amp")
    ELSE IF str = <<"o", "p", "e", "n", "c", "o", "d", "e">> THEN Some("OpenCode")
    ELSE None

\* Agent::from_str_opt
FromStrOpt(str) ==
    LET l == ToLowercase(str)
    IN  IF l = <<"c", "l", "a", "u", "d", "e">> THEN Some("Claude")
        ELSE IF l = <<"c", "o", "d", "e", "x">> THEN Some("Codex")
        ELSE IF l = <<"g", "e", "m", "i", "n", "i">> THEN Some("Gemini")
        ELSE IF l = <<"a", "m", "p">> THEN Some("Amp")
        ELSE IF l = <<"o", "p", "e", "n", "c", "o", "d", "e">> THEN Some("OpenCode")
        ELSE None

\* Option::and_then(Agent::from_str_opt)
AndThenFromStrOpt(ident) == IF ident = None THEN None ELSE FromStrOpt(ident[1])
\* Option::unwrap_or(Agent::Claude)
UnwrapOrClaude(opt) == IF opt = None THEN "Claude" ELSE opt[1]

\* The agent resolution of spawn_agent, spawn_pty and check_agent_available.
SpawnAgentResolve(ident) == UnwrapOrClaude(AndThenFromStrOpt(ident))
SpawnPtyResolve(ident) == UnwrapOrClaude(AndThenFromStrOpt(ident))
CheckAgentAvailableResolve(ident) == UnwrapOrClaude(AndThenFromStrOpt(ident))

\* Agent identifiers a caller passes: absent, the known names in several
\* spellings, and names of no agent.
AgentIdents ==
    {None,
     Some(<<"c", "l", "a", "u", "d", "e">>), Some(<<"C", "l", "a", "u", "d", "e">>),
     Some(<<"c", "o", "d", "e", "x">>), Some(<<"C", "O", "D", "E", "X">>),
     Some(<<"g", "e", "m", "i", "n", "i">>), Some(<<"G", "e", "m", "i", "n", "i">>),
     Some(<<"a", "m", "p">>), Some(<<"A", "M", "P">>),
     Some(<<"o", "p", "e", "n", "c", "o", "d", "e">>),
     Some(<<"O", "p", "e", "n", "C", "o", "d", "e">>),
     Some(<<"g", "p", "t">>), Some(<< >>), Some(<<"c", "l", "a", "u", "d", "e", " ">>)}

\* args.allowed_tools
ToolLists == {None, Some(<< >>), Some(<<"Read">>), Some(<<"Read", "Bash">>)}

\* SpawnAgentArgs as the caller sends it.  prompt is "hi"; persona_model,
\* session_id, output_format, no_session_persistence and max_turns are absent.
SpawnAgentArgSets ==
    [agent : AgentIdents, working_directory : BOOLEAN,
     append_system_prompt : BOOLEAN, json_schema : BOOLEAN,
     mcp_config : McpInputs, allowed_tools : ToolLists]

\* Agent::binary
Binary(agent) ==
    CASE agent = "Claude" -> "claude"
      [] agent = "Codex" -> "codex"
      [] agent = "Gemini" -> "gemini"
      [] agent = "Amp" -> "amp"
      [] agent = "OpenCode" -> "opencode"

\* Agent::auto_approve_flag
AutoApproveFlag(agent) ==
    CASE agent = "Claude" -> Some("--dangerously-skip-permissions")
      [] agent = "Codex" -> Some("--dangerously-bypass-approvals-and-sandbox")
      [] agent = "Gemini" -> Some("--yolo")
      [] agent = "Amp" -> Some("--dangerously-allow-all")
      [] agent = "OpenCode" -> None

\* Agent::supports_allowed_tools
SupportsAllowedTools(agent) == agent = "Claude"

\* One "--allowedTools <tool>" pair per tool of the list.
RECURSIVE ToolFlags(_)
ToolFlags(tools) ==
    IF tools = << >> THEN << >>
    ELSE <<"--allowedTools", Head(tools)>> \o ToolFlags(Tail(tools))

\* Variant of AllowedToolsArgs that passes nothing for an empty list.
AllowedToolsArgsNoSentinel(agent, tools) ==
    IF SupportsAllowedTools(agent) /\ tools # None THEN ToolFlags(tools[1]) ELSE << >>

\* spawn_agent: the arguments added for args.allowed_tools.
AllowedToolsArgs(agent, tools) ==
    IF SupportsAllowedTools(agent) /\ tools # None
      THEN IF tools[1] = << >>
             THEN <<"--allowedTools", "_none_">>
             ELSE ToolFlags(tools[1])
      ELSE << >>

\* spawn_agent: the argv of the child, program name first.
BuildArgv(agent, args) ==
    (IF agent = "Codex" THEN <<Binary(agent), "exec">> ELSE <<Binary(agent)>>)
    \o AutoApproveFlag(agent)
    \o <<"-p", "hi">>
    \o (CASE agent = "Claude" -> <<"--output-format", "stream-json", "--verbose">>
           [] agent = "Codex" -> <<"--json">>
           [] agent \in {"Gemini", "OpenCode"} -> <<"--output-format", "stream-json">>
           [] agent = "Amp" -> <<"--stream-json">>)
    \o (IF args.append_system_prompt /\ agent \in {"Claude", "Amp"}
          THEN <<"--append-system-prompt", "system prompt">> ELSE << >>)
    \o (IF args.json_schema
          THEN IF agent = "Claude" THEN <<"--json-schema", "schema">>
               ELSE IF agent = "Codex" THEN <<"--output-schema", "output_schema.json">>
               ELSE << >>
          ELSE << >>)
    \o AllowedToolsArgs(agent, args.allowed_tools)
    \o (IF args.mcp_config # "absent" /\ agent = "Claude"
          THEN <<"--mcp-config", args.mcp_config>> ELSE << >>)

\* The request the staging of spawn_agent sees: args with the agent resolved.
Resolved(agent, args) ==
    [agent |-> agent, working_directory |-> args.working_directory,
     append_system_prompt |-> args.append_system_prompt,
     json_schema |-> args.json_schema, mcp_config |-> args.mcp_config]

\* One evaluation of the synchronous part of spawn_agent on args.
SpawnAgentCall(args, flt) ==
    /\ app = "running" /\ call = NoCall
    /\ LET agent == SpawnAgentResolve(args.agent)
       IN  call' = [op |-> "spawn_agent", ident |-> args.agent, agent |-> agent,
                    args |-> args, flt |-> flt,
                    argv |-> BuildArgv(agent, args),
                    out |-> BuildAgent(Resolved(agent, args), flt)]
    /\ UNCHANGED <<issued, kind, spawnPc, ctx, scratch, wfiles, cleanups, child,
                   osKills, pipe, written, reader, events, sup, exitCode, poller,
                   chan, taken, procs, sessions, killRes, ret, staged, lockIo, app,
                   writing>>

\* The agent resolution of one spawn_pty call.
SpawnPtyCall(ident) ==
    /\ app = "running" /\ call = NoCall
    /\ call' = [op |-> "spawn_pty", ident |-> ident, agent |-> SpawnPtyResolve(ident)]
    /\ UNCHANGED <<issued, kind, spawnPc, ctx, scratch, wfiles, cleanups, child,
                   osKills, pipe, written, reader, events, sup, exitCode, poller,
                   chan, taken, procs, sessions, killRes, ret, staged, lockIo, app,
                   writing>>

\* The agent resolution of one check_agent_available call.
CheckAgentAvailableCall(ident) ==
    /\ app = "running" /\ call = NoCall
    /\ call' = [op |-> "check_agent_available", ident |-> ident,
                agent |-> CheckAgentAvailableResolve(ident)]
    /\ UNCHANGED <<issued, kind, spawnPc, ctx, scratch, wfiles, cleanups, child,
                   osKills, pipe, written, reader, events, sup, exitCode, poller,
                   chan, taken, procs, sessions, killRes, ret, staged, lockIo, app,
                   writing>>

\* The inputs still to be drawn: one call is evaluated per behaviour.
Pending(inputs) == IF call = NoCall THEN inputs ELSE {}

\* The Invocation Builder and the agent resolution, applied to every input.
BuilderNext ==
    \/ \E args \in Pending(SpawnAgentArgSets), flt \in Faults : SpawnAgentCall(args, flt)
    \/ \E ident \in Pending(AgentIdents) : SpawnPtyCall(ident)
    \/ \E ident \in Pending(AgentIdents) : CheckAgentAvailableCall(ident)

BuilderSpec == Init /\ [][BuilderNext]_vars

\* ================================================================= Next
\* The steps of the program while the application runs.
RunNext ==
    \/ \E i \in Followed, out \in AgentOutcomes : SpawnAgent(i, out)
    \/ \E i \in Ids, se \in StageExecIds : SpawnAgentRegister(i, se)
    \/ \E i \in Ids : SpawnAgentStart(i)
    \/ \E i \in Ids, s \in Streams : ChildWrite(i, s)
    \/ \E i \in Ids, st \in ExitStatuses : ChildExit(i, st)
    \/ \E i \in Ids, s \in Streams : ReaderLine(i, s)
    \/ \E i \in Ids, s \in Streams : ReaderEof(i, s)
    \/ \E i \in Ids, s \in Streams : ReaderErr(i, s)
    \/ \E i \in Ids : SupSelectExit(i)
    \/ \E i \in Ids : SupSelectKill(i)
    \/ \E i \in Ids : SupCleanup(i)
    \/ \E i \in Ids : SupCleanupDir(i)
    \/ \E i \in Ids : SupEmit(i)
    \/ \E i \in Ids : SupRemove(i)
    \/ \E i \in KillIds : PmKill(i)
    \/ PmKillAll
    \/ \E i \in Followed, out \in PtyOutcomes : SpawnPty(i, out)
    \/ \E i \in Ids : SpawnPtyRegister(i)
    \/ \E i \in Ids : SpawnPtyStart(i)
    \/ \E i \in Ids : PtyReaderChunk(i)
    \/ \E i \in Ids : PtyReaderEnd(i)
    \/ \E i \in Ids : PollReturn(i)
    \/ \E i \in Ids : PtySupSelectExit(i)
    \/ \E i \in Ids, c \in ExitCodes : PtySupSelectKill(i, c)
    \/ \E i \in Ids : PtySupEmit(i)
    \/ \E i \in Ids : PtySupRemove(i)
    \/ \E i \in KillIds : PtyKill(i)
    \/ PtyKillAll
    \/ \E i \in KillIds, io \in WriteIo : PtyWrite(i, io)
    \/ \E i \in KillIds, ok \in BOOLEAN : PtyResize(i, DefaultSize, ok)

Next ==
    \/ RunNext
    \/ AppExit

Spec == Init /\ [][Next]_vars

\* The tasks of a piped instance: tokio polls a spawned task that can make
\* progress, so each of them is weakly fair.
SupStep(i) ==
    \/ SupSelectExit(i)
    \/ SupSelectKill(i)
    \/ SupCleanup(i)
    \/ SupCleanupDir(i)
    \/ SupEmit(i)
    \/ SupRemove(i)

ReaderStep(i, s) ==
    \/ ReaderLine(i, s)
    \/ ReaderEof(i, s)
    \/ ReaderErr(i, s)

\* The supervisor task of a PTY session.
PtySupStep(i) ==
    \/ PtySupSelectExit(i)
    \/ \E c \in ExitCodes : PtySupSelectKill(i, c)
    \/ PtySupEmit(i)
    \/ PtySupRemove(i)

\* The running application under fair scheduling of its tasks.
FairSpec ==
    /\ Init
    /\ [][RunNext]_vars
    /\ \A i \in Ids : WF_vars(SupStep(i))
    /\ \A i \in Ids, s \in Streams : WF_vars(ReaderStep(i, s))

\* The program when a spawned Child can lack a pipe handle.
PipeFaultNext ==
    \/ Next
    \/ \E i \in Ids : SpawnAgentPipeMissing(i)

PipeFaultSpec == Init /\ [][PipeFaultNext]_vars

\* Two instances of one kind side by side.  Each is spawned from a request
\* that stages nothing and meets no fault, and its child ends without output
\* and with exit code 0, so that every registry operation meets each
\* combination of two entries.  The ids are named in the order of issue.
PlainRequest ==
    [agent |-> "Claude", working_directory |-> FALSE,
     append_system_prompt |-> FALSE, json_schema |-> FALSE,
     mcp_config |-> "absent"]
NoFault == [temp_dir_ok |-> TRUE, fail_at |-> 0, spawn_ok |-> TRUE]
NoPtyFault == [openpty_ok |-> TRUE, spawn_ok |-> TRUE,
               writer_ok |-> TRUE, reader_ok |-> TRUE]
PlainOutcomes == {BuildAgent(PlainRequest, NoFault)}
PlainPtyOutcomes == {BuildPty(NoPtyFault)}
PlainExits == {Some(0)}

\* The ids the next spawn of kind k can issue.
NextIds(k) ==
    IF \E j \in Ids : kind[j] \notin {"none", k} THEN {}
    ELSE IF issued = {} THEN {"id1"}
    ELSE Ids \ issued
\* args.stage_execution_id of the two requests.
StageExecIdOf(i) == IF i = "id1" THEN Some("se") ELSE None

PairNext ==
    \/ \E i \in NextIds("agent"), out \in PlainOutcomes : SpawnAgent(i, out)
    \/ \E i \in Ids : SpawnAgentRegister(i, StageExecIdOf(i))
    \/ \E i \in Ids : SpawnAgentStart(i)
    \/ \E i \in Ids, st \in PlainExits : ChildExit(i, st)
    \/ \E i \in Ids, s \in Streams : ReaderEof(i, s)
    \/ \E i \in Ids : SupSelectExit(i)
    \/ \E i \in Ids : SupSelectKill(i)
    \/ \E i \in Ids : SupCleanup(i)
    \/ \E i \in Ids : SupCleanupDir(i)
    \/ \E i \in Ids : SupEmit(i)
    \/ \E i \in Ids : SupRemove(i)
    \/ \E i \in Ids : PmKill(i)
    \/ PmKillAll
    \/ \E i \in NextIds("pty"), out \in PlainPtyOutcomes : SpawnPty(i, out)
    \/ \E i \in Ids : SpawnPtyRegister(i)
    \/ \E i \in Ids : SpawnPtyStart(i)
    \/ \E i \in Ids : PtyReaderEnd(i)
    \/ \E i \in Ids : PollReturn(i)
    \/ \E i \in Ids : PtySupSelectExit(i)
    \/ \E i \in Ids, c \in ExitCodes : PtySupSelectKill(i, c)
    \/ \E i \in Ids : PtySupEmit(i)
    \/ \E i \in Ids : PtySupRemove(i)
    \/ \E i \in Ids : PtyKill(i)
    \/ PtyKillAll
    \/ \E i \in Ids, sz \in Sizes \ {DefaultSize}, ok \in BOOLEAN : PtyResize(i, sz, ok)

PairSpec == Init /\ [][PairNext]_vars

\* Two PTY sessions side by side, with writes that can block in write_all
\* while they hold the lock of the session map.  Resizes and the writes that
\* do not block succeed.
LockNext ==
    \/ \E i \in NextIds("pty"), out \in PlainPtyOutcomes : SpawnPty(i, out)
    \/ \E i \in Ids : SpawnPtyRegister(i)
    \/ \E i \in Ids : SpawnPtyStart(i)
    \/ \E i \in Ids, st \in PlainExits : ChildExit(i, st)
    \/ \E i \in Ids : PtyReaderEnd(i)
    \/ \E i \in Ids : PollReturn(i)
    \/ \E i \in Ids : PtySupSelectExit(i)
    \/ \E i \in Ids, c \in ExitCodes : PtySupSelectKill(i, c)
    \/ \E i \in Ids : PtySupEmit(i)
    \/ \E i \in Ids : PtySupRemove(i)
    \/ \E i \in Ids : PtyKill(i)
    \/ PtyKillAll
    \/ \E i \in Ids, ok \in {TRUE} : PtyResize(i, DefaultSize, ok)
    \/ \E i \in Ids, io \in {"ok"} : PtyWrite(i, io)
    \/ \E i \in Ids : PtyWriteBlock(i)
    \/ \E i \in Ids : ChildReadInput(i)
    \/ \E i \in Ids, io \in WriteIo : PtyWriteReturn(i, io)

LockSpec == Init /\ [][LockNext]_vars

\* The tasks of the runtime are scheduled fairly: the supervisor of each
\* session, its polling thread, and the thread of a write that can return.
\* Nothing is assumed of the children.
LockFairSpec ==
    /\ LockSpec
    /\ \A i \in Ids : WF_vars(PtySupStep(i))
    /\ \A i \in Ids : WF_vars(PollReturn(i))
    /\ \A i \in Ids : WF_vars(\E io \in WriteIo : PtyWriteReturn(i, io))

\* =========================================================== properties
Count(i, t) == Cardinality({ k \in DOMAIN events[i] : events[i][k].type = t })
Last(q) == q[Len(q)]
ReadersDone(i) == \A s \in Streams : reader[i][s] = "done"

\* C1: for every piped instance Completed is emitted at most once, and once
\* the supervisor is past its emit step exactly once; it is the last event of
\* the instance; and it is emitted only after the supervisor went through
\* Draining, i.e. after both line-reader tasks have ended their stream.
CompletedOnceLastAfterReaders ==
    \A i \in Ids : kind[i] = "agent" =>
        /\ Count(i, "Completed") <= 1
        /\ Count(i, "Completed") = 1 =>
              /\ Last(events[i]).type = "Completed"
              /\ ReadersDone(i)
              /\ sup[i] \in {"remove", "done"}
        /\ sup[i] \in {"remove", "done"} => Count(i, "Completed") = 1

\* C1 witness: a cancelled piped instance that produced output has finished.
CancelledInstanceCompleted ==
    \E i \in Ids :
        /\ kind[i] = "agent" /\ sup[i] = "done"
        /\ killRes[i] = Some(Ok)
        /\ Count(i, "StdoutLine") + Count(i, "StderrLine") >= 1
        /\ Last(events[i]) = Ev("Completed", None)

\* C2: for every PTY session Exited is emitted at most once and it is the
\* last event of the session: no Output follows it.
ExitedOnceAfterAllOutput ==
    \A i \in Ids : kind[i] = "pty" =>
        /\ Count(i, "Exited") <= 1
        /\ Count(i, "Exited") = 1 => Last(events[i]).type = "Exited"

\* C3: the first event of every instance, piped or PTY, is Started, and
\* Started is emitted only once: every line, chunk and terminal event
\* comes after it.
StartedFirst ==
    \A i \in Ids : events[i] # << >> =>
        /\ events[i][1].type = "Started"
        /\ Count(i, "Started") = 1

\* C3 witness: an instance emitted Started, output and its terminal event.
StartedThenOutputThenTerminal ==
    \E i \in Ids :
        /\ Len(events[i]) >= 3
        /\ events[i][2].type \in {"StdoutLine", "StderrLine", "Output"}
        /\ Count(i, "Completed") + Count(i, "Exited") = 1

\* The registry an instance is registered in.
Registered(i) ==
    IF kind[i] = "agent" THEN i \in DOMAIN procs ELSE i \in DOMAIN sessions
TerminalEmitted(i) == Count(i, "Completed") + Count(i, "Exited") >= 1

\* C4: from the emission of Started until the terminal event has been
\* emitted, the instance is in its registry: in particular every event is
\* emitted from a state in which the id is registered.
RegisteredWhileEmitting ==
    \A i \in Ids : (events[i] # << >> /\ ~TerminalEmitted(i)) => Registered(i)

\* What ProcessManager::kill(i) returns on a second call.
SecondKillResult(i) ==
    IF i \in DOMAIN procs THEN KillAlreadySent ELSE ProcessNotFound

\* C5 (as stated): of two ProcessManager::kill calls on an id that was
\* registered at the first call, exactly one returns ok and the other
\* returns 'Kill signal already sent' or 'Process not found'.
KillTwiceExactlyOneOk ==
    [][\A i \in Ids : (PmKill(i) /\ killRes[i] # None) =>
          /\ (killRes[i] = Some(Ok)) # (ret' = Some(Ok))
          /\ ret' # Some(Ok) => ret' = Some(SecondKillResult(i))
          /\ killRes[i] # Some(Ok) =>
                killRes[i] \in {Some(KillAlreadySent), Some(ProcessNotFound)}]_vars

\* C5 (amended): of two ProcessManager::kill calls on an id that was
\* registered at the first call, the second never returns ok: it returns
\* 'Kill signal already sent' while the entry remains and 'Process not
\* found' once it is removed.  The first returns ok, or 'Process already
\* exited' when the supervisor had left its race; the sender is taken at
\* most once.
KillTwiceAtMostOneOk ==
    [][\A i \in Ids : (PmKill(i) /\ killRes[i] # None) =>
          /\ ret' = Some(SecondKillResult(i))
          /\ killRes[i] \in {Some(Ok), Some(ProcessAlreadyExited)}
          /\ taken'[i] = 1]_vars

\* C5 witness: a first kill found the supervisor draining, a second kill
\* found the sender gone.
SecondKillAfterExit ==
    \E i \in Ids :
        /\ killRes[i] = Some(ProcessAlreadyExited)
        /\ ret = Some(KillAlreadySent)

\* C6: when ProcessManager::kill(i) returned ok, the Completed event of i
\* carries no exit code.
KillOkImpliesAbsentExitCode ==
    \A i \in Ids : (kind[i] = "agent" /\ killRes[i] = Some(Ok)) =>
        \A k \in DOMAIN events[i] :
            events[i][k].type = "Completed" => events[i][k].exit_code = None

\* C7: PtyManager::kill(i) on a registered session whose sender was already
\* taken does not return ok.
PtySecondKillFails ==
    [][\A i \in Ids :
          (PtyKill(i) /\ (IF i \in DOMAIN sessions THEN ~sessions[i].kill_tx ELSE FALSE))
              => ret' # Some(Ok)]_vars

\* C8: kill(i) on an id that is not in the map returns 'not found' and
\* leaves the map as it is, for ProcessManager and for PtyManager.
KillUnknownNotFound ==
    [][\A i \in KillIds :
          /\ (PmKill(i) /\ i \notin DOMAIN procs) =>
                (ret' = Some(ProcessNotFound) /\ procs' = procs)
          /\ (PtyKill(i) /\ i \notin DOMAIN sessions) =>
                (ret' = Some(PtyNotFound) /\ sessions' = sessions)]_vars

\* C8 witness: kill was called on an id that had been deregistered.
KilledAfterDeregistration ==
    \E i \in Ids :
        /\ kind[i] = "agent" /\ sup[i] = "done"
        /\ ret = Some(ProcessNotFound)

\* C9: once Completed has been emitted for i, list_running and
\* list_running_detailed do not return i.
CompletedNotListed ==
    \A i \in Ids : (kind[i] = "agent" /\ Count(i, "Completed") >= 1) =>
        /\ i \notin ListRunning
        /\ \A p \in ListRunningDetailed : p[1] # i

\* C10: for every spawn_agent call that created a TempContext, cleanup runs
\* exactly once on every exit path: it has run when the call returned an
\* error and when the supervisor is past Draining, never twice, and on the
\* paths that reach spawn only after both readers ended.
CleanupExactlyOnce ==
    \A i \in Ids : (kind[i] = "agent" /\ ctx[i] # "none") =>
        /\ cleanups[i] <= 1
        /\ spawnPc[i] = "failed" => cleanups[i] = 1
        /\ sup[i] \in {"emit", "remove", "done"} => cleanups[i] = 1
        /\ (cleanups[i] = 1 /\ spawnPc[i] # "failed") => ReadersDone(i)

PtyCancelIssuesOsKill ==
    [][\A i \in Ids, c \in ExitCodes :
          PtySupSelectKill(i, c) =>
              /\ osKills'[i] = osKills[i] + 1
              /\ exitCode'[i] = None]_vars

\* C13: when the application process ends after kill_all(), every child
\* that was registered and still running at that moment has had an OS kill
\* issued to it.
AppExitKillsChildren ==
    [][AppExit =>
          \A i \in DOMAIN procs : child[i].st = "running" => osKills'[i] >= 1]_vars

\* C14: a PtyManager::write(i, data) that starts after Exited was emitted
\* for i returns 'PTY session not found' and performs no write.
PtyWriteAfterExitedNotFound ==
    [][\A i \in Ids, io \in WriteIo :
          (PtyWrite(i, io) /\ Count(i, "Exited") >= 1) =>
              /\ ret' = Some(PtyNotFound)
              /\ lockIo' = {}]_vars

\* C15: no step performs child I/O (write, flush, resize, exit check, OS
\* kill) while it holds the ProcessManager or PtyManager lock.
NoIoUnderLock == lockIo = {}

\* C16 (as stated): when Completed is emitted for an instance that staged
\* files in the working directory, the staged files still exist.
StagedFilesExistAtCompleted ==
    [][\A i \in Ids : (SupEmit(i) /\ staged[i] # {}) => wfiles[i] = staged[i]]_vars

\* C16 (amended): the staged working-directory files exist until
\* TempContext::cleanup, which runs after both readers ended and before
\* Completed is emitted: when Completed is emitted cleanup has run once and
\* the staged files are gone.
StagedFilesRemovedBeforeCompleted ==
    [][\A i \in Ids :
          /\ SupCleanup(i) =>
                (wfiles[i] = staged[i] /\ ReadersDone(i) /\ Count(i, "Completed") = 0)
          /\ SupEmit(i) => (cleanups[i] = 1 /\ wfiles[i] = {})]_vars

\* C16 witness: an instance that staged working-directory files has emitted
\* Completed.
StagedInstanceCompleted ==
    \E i \in Ids :
        /\ staged[i] # {}
        /\ Count(i, "Completed") = 1
        /\ wfiles[i] = {}

\* C17: for Codex and Gemini, a request whose mcpConfig is malformed JSON
\* or lacks mcpServers makes spawn_agent return an error without spawning a
\* child, whether or not workingDirectory is set.
MalformedMcpRejected ==
    (/\ call.op = "spawn_agent"
     /\ call.agent \in {"Codex", "Gemini"}
     /\ call.args.mcp_config \in {"malformed", "no_mcpServers"})
        => (~call.out.ok /\ ~call.out.spawned)

\* The arguments that follow each occurrence of flag in argv, in order.
FlagValues(argv, flag) ==
    LET at == { k \in 1..(Len(argv) - 1) : argv[k] = flag }
    IN  [n \in 1..Cardinality(at) |->
            argv[(CHOOSE k \in at : Cardinality({ j \in at : j < k }) = n - 1) + 1]]

\* The allowedTools rule on one built argv: no flag, the sentinel once, or
\* one flag per tool.
ToolsFlagged(c) ==
    LET tools == c.args.allowed_tools
        vals == FlagValues(c.argv, "--allowedTools")
    IN  /\ tools = None => vals = << >>
        /\ tools = Some(<< >>) =>
              /\ vals = <<"_none_">>
              /\ c.argv # BuildArgv(c.agent, [c.args EXCEPT !.allowed_tools = None])
        /\ (tools # None /\ tools # Some(<< >>)) => vals = tools[1]

\* C18 (as stated): for every agent variant, an absent allowedTools gives no
\* --allowedTools flag, an empty list gives the sentinel '--allowedTools
\* _none_' exactly once and an argv that differs from the absent case, and a
\* non-empty list gives one flag per listed tool.
AllowedToolsArgvEveryAgent == call.op = "spawn_agent" => ToolsFlagged(call)

\* C18 (amended): the above holds for the agent that supports a tool
\* allowlist (Claude); for every other agent no --allowedTools flag appears
\* and the argv is the one built with allowedTools absent.
AllowedToolsArgvByCapability ==
    call.op = "spawn_agent" =>
        IF call.agent = "Claude"
          THEN ToolsFlagged(call)
          ELSE /\ FlagValues(call.argv, "--allowedTools") = << >>
               /\ call.argv = BuildArgv(call.agent, [call.args EXCEPT !.allowed_tools = None])

\* C18 witness: an argv was built for Claude from an empty allowedTools list.
ClaudeEmptyToolListBuilt ==
    /\ call.op = "spawn_agent"
    /\ call.agent = "Claude"
    /\ call.args.allowed_tools = Some(<< >>)
    /\ FlagValues(call.argv, "--allowedTools") = <<"_none_">>

\* The name of an agent, and equality of two strings up to case.
NameOf(agent) ==
    CASE agent = "Claude" -> <<"c", "l", "a", "u", "d", "e">>
      [] agent = "Codex" -> <<"c", "o", "d", "e", "x">>
      [] agent = "Gemini" -> <<"g", "e", "m", "i", "n", "i">>
      [] agent = "Amp" -> <<"a", "m", "p">>
      [] agent = "OpenCode" -> <<"o", "p", "e", "n", "c", "o", "d", "e">>
SameIgnoringCase(x, y) ==
    /\ Len(x) = Len(y)
    /\ \A k \in 1..Len(x) : ToLowerChar(x[k]) = ToLowerChar(y[k])

\* C19: in spawn_agent, spawn_pty and check_agent_available alike, an absent
\* identifier and an identifier that is none of the five names up to case
\* resolve to Claude, and an identifier that is one of the names up to case
\* resolves to that agent; resolution never fails.
AgentResolution ==
    call.op \in {"spawn_agent", "spawn_pty", "check_agent_available"} =>
        /\ call.agent \in Agents
        /\ call.ident = None => call.agent = "Claude"
        /\ call.ident # None =>
              /\ \A a \in Agents :
                    SameIgnoringCase(call.ident[1], NameOf(a)) => call.agent = a
              /\ (\A a \in Agents : ~SameIgnoringCase(call.ident[1], NameOf(a)))
                    => call.agent = "Claude"

\* C19 witness: check_agent_available resolved a name given in mixed case.
MixedCaseNameResolved ==
    /\ call.op = "check_agent_available"
    /\ call.ident = Some(<<"O", "p", "e", "n", "C", "o", "d", "e">>)
    /\ call.agent = "OpenCode"

\* C20: under fair scheduling of the supervisor and reader tasks, a piped
\* instance that emitted Started and whose child has exited, or whose
\* cancellation signal was sent by kill(id) or kill_all(), eventually has
\* emitted Completed and is out of the registry.
StartedEventuallyCompleted ==
    \A i \in Ids :
        (/\ kind[i] = "agent"
         /\ Count(i, "Started") = 1
         /\ (child[i].st = "exited" \/ chan[i] = "sent"))
            ~> (Count(i, "Completed") = 1 /\ i \notin DOMAIN procs)

\* C20 witness: an instance cancelled by kill_all() while its child was
\* running has emitted Completed and is out of the registry.
KillAllInstanceCompleted ==
    \E i \in Ids :
        /\ kind[i] = "agent" /\ sup[i] = "done"
        /\ taken[i] = 1 /\ killRes[i] = None /\ osKills[i] = 1
        /\ child[i].code = None
        /\ Count(i, "Completed") = 1 /\ i \notin DOMAIN procs

\* C21: in Draining the supervisor's steps follow one order: cleanup starts
\* only when both line readers have ended; it removes the staged
\* working-directory files first and the scratch directory second; Completed
\* is emitted after cleanup has finished; the registry entry is removed after
\* Completed has been emitted.
DrainingOrder ==
    [][\A i \in Ids :
          /\ SupCleanup(i) =>
                /\ ReadersDone(i)
                /\ scratch[i] /\ scratch'[i]
                /\ wfiles'[i] = {}
                /\ Count(i, "Completed") = 0
          /\ SupCleanupDir(i) =>
                /\ wfiles[i] = {}
                /\ ~scratch'[i]
                /\ Count(i, "Completed") = 0
          /\ SupEmit(i) =>
                /\ ReadersDone(i)
                /\ ctx[i] = "cleaned" /\ wfiles[i] = {} /\ ~scratch[i]
                /\ i \in DOMAIN procs => i \in DOMAIN procs'
          /\ SupRemove(i) =>
                /\ Count(i, "Completed") = 1
                /\ i \notin DOMAIN procs']_vars

\* C21 witness: an instance that staged working-directory files went through
\* the whole of Draining while it stayed registered up to the removal.
DrainedInOrder ==
    \E i \in Ids :
        /\ kind[i] = "agent" /\ sup[i] = "done"
        /\ staged[i] # {} /\ taken[i] = 0
        /\ ReadersDone(i) /\ ctx[i] = "cleaned"
        /\ Last(events[i]).type = "Completed"
        /\ i \notin DOMAIN procs

\* What kill_all does to the entries of a registry map: it takes the sender
\* of every entry that still has one and sends on it, and passes the others.
Swept(map) ==
    \A j \in DOMAIN map :
        IF map[j].kill_tx
          THEN /\ taken'[j] = taken[j] + 1
               /\ chan[j] = "open" => chan'[j] = "sent"
               /\ chan[j] # "open" => chan'[j] = chan[j]
          ELSE /\ taken'[j] = taken[j]
               /\ chan'[j] = chan[j]

\* C22: kill_all() sends the cancellation signal on every registered entry
\* whose sender is still there, whatever the other entries are (sender
\* already taken, receiver already dropped), and leaves the map empty; an
\* entry that is gone does not come back, so the supervisor's later
\* remove(id) changes nothing and a later kill(id) returns 'not found'.
\* This holds for ProcessManager and for PtyManager.
KillAllSweepsEveryEntry ==
    [][/\ (procs # NoEntry /\ PmKillAll) => (Swept(procs) /\ procs' = NoEntry)
       /\ (sessions # NoEntry /\ PtyKillAll) => (Swept(sessions) /\ sessions' = NoEntry)
       /\ \A i \in Ids :
             /\ (spawnPc[i] \in {"registered", "returned"} /\ ~Registered(i))
                   => (i \notin DOMAIN procs' /\ i \notin DOMAIN sessions')
             /\ (sup[i] = "remove" /\ ~Registered(i) /\ (SupRemove(i) \/ PtySupRemove(i)))
                   => (procs' = procs /\ sessions' = sessions)
             /\ (ret' # None /\ i \notin DOMAIN procs /\ PmKill(i))
                   => ret' = Some(ProcessNotFound)
             /\ (ret' # None /\ i \notin DOMAIN sessions /\ PtyKill(i))
                   => ret' = Some(PtyNotFound)]_vars

\* C22 witness: kill_all() met one entry whose receiver was dropped (its
\* supervisor had left the race) and one entry with a live sender; the map
\* is empty, the second got the signal, and a kill on the first then
\* returned 'not found'.
KillAllPastFailedSend ==
    \E i, j \in Ids :
        /\ i # j /\ procs = NoEntry
        /\ kind[i] = "agent" /\ kind[j] = "agent"
        /\ taken[i] = 1 /\ killRes[i] = None /\ osKills[i] = 0
        /\ sup[i] \in {"drain", "rmdir", "emit", "remove"}
        /\ taken[j] = 1 /\ killRes[j] = None /\ chan[j] = "sent"
        /\ ret = Some(ProcessNotFound)

\* C23: the branch that wins the piped supervisor's race decides the exit
\* code: when the natural exit wins, exit_code is what wait() reported
\* (absent when wait failed or the status has no code) and no OS kill is
\* issued, then or later; when the cancellation wins, one OS kill is issued
\* and exit_code is absent.  Completed carries that exit_code.
ExitCodeByRaceBranch ==
    [][\A i \in Ids :
          /\ SupSelectExit(i) =>
                (exitCode'[i] = child[i].code /\ osKills[i] = 0 /\ osKills'[i] = 0)
          /\ SupSelectKill(i) =>
                (exitCode'[i] = None /\ osKills[i] = 0 /\ osKills'[i] = 1)
          /\ (kind[i] = "agent" /\ osKills'[i] # osKills[i]) => SupSelectKill(i)
          /\ SupEmit(i) =>
                Last(events'[i]) =
                    Ev("Completed", IF osKills[i] = 0 THEN child[i].code ELSE None)]_vars

\* C23 witness: the child ended with code 1 while a cancellation signal was
\* pending; the natural exit won the race and Completed carries the code.
NaturalExitWonRace ==
    \E i \in Ids :
        /\ kind[i] = "agent" /\ sup[i] = "done"
        /\ killRes[i] = Some(Ok) /\ osKills[i] = 0
        /\ Last(events[i]) = Ev("Completed", Some(1))

\* The piped supervisor of i has left its race by the natural-exit branch.
NaturalExitTaken(i) ==
    /\ kind[i] = "agent"
    /\ sup[i] \in {"drain", "rmdir", "emit", "remove", "done"}
    /\ osKills[i] = 0

ResizeOnlySize ==
    [][ret' # None =>
        \A i \in Ids, sz \in Sizes \ {DefaultSize}, ok \in BOOLEAN :
          PtyResize(i, sz, ok) =>
              /\ DOMAIN sessions' = DOMAIN sessions
              /\ \A j \in DOMAIN sessions :
                    /\ sessions'[j].kill_tx = sessions[j].kill_tx
                    /\ j # i => sessions'[j] = sessions[j]
              /\ sup' = sup /\ poller' = poller /\ child' = child
              /\ chan' = chan /\ taken' = taken /\ events' = events
              /\ i \in DOMAIN sessions =>
                    /\ ret' = Some(IF ok THEN Ok ELSE ResizeFailed)
                    /\ sessions'[i].size = IF ok THEN sz ELSE sessions[i].size
              /\ i \notin DOMAIN sessions =>
                    (ret' = Some(PtyNotFound) /\ sessions' = sessions)]_vars

\* C25 witness: of two running sessions one was resized; the other has the
\* size it was opened with.
ResizedOneOfTwo ==
    \E i, j \in Ids :
        /\ i # j /\ i \in DOMAIN sessions /\ j \in DOMAIN sessions
        /\ sup[i] = "select" /\ sup[j] = "select"
        /\ sessions[i].size = <<80, 40>>
        /\ sessions[j].size = DefaultSize
        /\ ret = Some(Ok) /\ lockIo = {"resize"}

\* Instance j as the registries and its own tasks see it.
EntryOf(map, j) == IF j \in DOMAIN map THEN Some(map[j]) ELSE None
Untouched(j) ==
    /\ EntryOf(procs, j)' = EntryOf(procs, j)
    /\ EntryOf(sessions, j)' = EntryOf(sessions, j)
    /\ chan'[j] = chan[j] /\ taken'[j] = taken[j]
    /\ child'[j] = child[j] /\ sup'[j] = sup[j] /\ poller'[j] = poller[j]
    /\ events'[j] = events[j]

\* C26: kill(i), remove(i) and every step by which the supervisor of i ends
\* the instance (natural exit, cancellation, a kill that finds the child
\* gone, cleanup, terminal event) leave every other instance as it is: the
\* entry of j # i is present or absent as before, with the same sender and
\* metadata, and child, supervisor, poller and events of j are unchanged.
OtherEntriesUntouched ==
    [][\A i \in Ids :
          (\/ ret' # None /\ (PmKill(i) \/ PtyKill(i))
           \/ sup'[i] # sup[i] /\ (SupStep(i) \/ PtySupStep(i)))
              => \A j \in Ids \ {i} : Untouched(j)]_vars

\* C26 witness: one instance was cancelled, went through its whole
\* termination and was removed, while the other is registered with its
\* sender, and its child runs.
OneEndedOtherRuns ==
    \E i, j \in Ids :
        /\ i # j
        /\ kind[i] = "agent" /\ sup[i] = "done" /\ killRes[i] = Some(Ok)
        /\ osKills[i] = 1 /\ i \notin DOMAIN procs
        /\ j \in DOMAIN procs /\ procs[j].kill_tx
        /\ sup[j] = "select" /\ child[j].st = "running" /\ chan[j] = "open"

\* C28: once spawn_pty has returned an error, no child spawned by that call
\* is running.
FailedSpawnPtyLeavesNoChild ==
    \A i \in Ids : (kind[i] = "pty" /\ spawnPc[i] = "failed") => child[i].st # "running"

\* C27: under fair scheduling of the runtime's tasks, once the supervisor of
\* a PTY session has emitted Exited and removed the session, the polling
\* thread of that session returns.
PollerReturnsAfterSessionEnd ==
    \A i \in Ids :
        (kind[i] = "pty" /\ sup[i] = "done") ~> (poller[i].st = "returned")

\* C29: under fair scheduling of the runtime's tasks, a PtyManager::write
\* that holds the lock of the session map eventually releases it, whatever
\* the child does, so that every kill, resize, write and exit poll waiting
\* for the lock acquires it.
WriteReleasesLock == (writing # None) ~> (writing = None)

====
